---- MODULE Spec2Model ----
(***************************************************************************)
(* A model of the Salesforce adapter (packages/salesforce-adapter/src/     *)
(* adapter.ts): naming conversion, error aggregation, annotation           *)
(* normalisation, the add / update / remove operations and discovery.      *)
(*                                                                         *)
(* Strings are sequences of one-character strings, so that the naming      *)
(* functions are computed character by character as lodash computes them.  *)
(***************************************************************************)
EXTENDS Integers, Sequences, FiniteSets, TLC

VARIABLES
    \* naming: position, the name, the custom flag, the wire and internal names
    nmPc, nmName, nmCustom, nmWire, nmInternal,
    \* diagnose: position, the client result, the outcome
    dgPc, dgResult, dgOut,
    \* add / update / remove: the operation, its position, its arguments, the
    \* normalised clone, the client calls issued so far, the results the client
    \* returned to them, and how the operation ended
    op, pc, prevElement, element, post, calls, results, outcome, errMsg, retval,
    \* annotation normalisation: position, the element, and the element after
    \* one and after two applications
    anPc, anElement, anOnce, anTwice,
    \* field mapping: position, the discovery pass, the field descriptor the
    \* client returned, the field element made of it
    fmPc, fmPass, fmField, fmElement,
    \* discover: the data-object pass, the metadata-type pass, and how
    \* discover itself ended
    dcS, dcM, dcOut

nmVars == <<nmPc, nmName, nmCustom, nmWire, nmInternal>>
dgVars == <<dgPc, dgResult, dgOut>>
opVars == <<op, pc, prevElement, element, post, calls, results, outcome, errMsg, retval>>

anVars == <<anPc, anElement, anOnce, anTwice>>
fmVars == <<fmPc, fmPass, fmField, fmElement>>

dcVars == <<dcS, dcM, dcOut>>

vars == <<nmVars, dgVars, opVars, anVars, fmVars, dcVars>>

\* the variables an action of one part leaves alone
nonNmVars == <<dgVars, opVars, anVars, fmVars, dcVars>>
nonDgVars == <<nmVars, opVars, anVars, fmVars, dcVars>>
nonOpVars == <<nmVars, dgVars, anVars, fmVars, dcVars>>
nonAnVars == <<nmVars, dgVars, opVars, fmVars, dcVars>>
nonFmVars == <<nmVars, dgVars, opVars, anVars, dcVars>>
nonDcVars == <<nmVars, dgVars, opVars, anVars, fmVars>>

(***************************************************************************)
(* Bounds of the model.                                                    *)
(***************************************************************************)
\* longest name given to the naming functions
MaxNameLen == 3
\* most error entries in one save result's error list
MaxErrors == 2
\* most save results in an array-shaped client result
MaxResults == 2
\* most fields of an object given to add / update / remove
MaxFields == 2
\* most values of a field's picklist
MaxPicklist == 2

(***************************************************************************)
(* Characters.  lodash's words() splits on character classes; on ASCII     *)
(* letters, digits, '_' and ' ' these are lower, upper, digit and break.   *)
(***************************************************************************)
LowerSeq == <<"a","b","c","d","e","f","g","h","i","j","k","l","m",
              "n","o","p","q","r","s","t","u","v","w","x","y","z">>
UpperSeq == <<"A","B","C","D","E","F","G","H","I","J","K","L","M",
              "N","O","P","Q","R","S","T","U","V","W","X","Y","Z">>
Lower == {LowerSeq[i] : i \in DOMAIN LowerSeq}
Upper == {UpperSeq[i] : i \in DOMAIN UpperSeq}
Digit == {"0","1","2","3","4","5","6","7","8","9"}

UpperOf == [c \in Lower |-> UpperSeq[CHOOSE i \in DOMAIN LowerSeq : LowerSeq[i] = c]]
LowerOf == [c \in Upper |-> LowerSeq[CHOOSE i \in DOMAIN UpperSeq : UpperSeq[i] = c]]

toUpperChar(c) == IF c \in Lower THEN UpperOf[c] ELSE c
toLowerChar(c) == IF c \in Upper THEN LowerOf[c] ELSE c

\* String.prototype.toLowerCase
toLowerCase(s) == [i \in 1..Len(s) |-> toLowerChar(s[i])]

\* lodash upperFirst: the first character upper-cased, the rest as it is
upperFirst(s) == IF s = <<>> THEN s ELSE <<toUpperChar(s[1])>> \o Tail(s)

\* lodash capitalize: upperFirst(toLowerCase(s))
capitalize(s) == upperFirst(toLowerCase(s))

\* the length of the longest run of characters of class Cls starting at s[i]
RunLen(s, i, Cls) ==
    CHOOSE n \in 0..(Len(s) - i + 1) :
        /\ \A k \in 0..(n - 1) : s[i + k] \in Cls
        /\ (i + n > Len(s) \/ s[i + n] \notin Cls)

(***************************************************************************)
(* lodash words(): the matches of reUnicodeWord, left to right.  On the    *)
(* characters above its alternatives reduce to                             *)
(*    Upper? Lower+      a capitalised or lower-case word                  *)
(*    Upper+             a run of capitals; when a lower-case letter       *)
(*                       follows the run, its last capital starts the next *)
(*                       word ('ABc' -> 'A', 'Bc')                         *)
(*    Digit+             a run of digits                                   *)
(* and every other character separates words.  (When reHasUnicodeWord does *)
(* not match, reAsciiWord gives the same words.  The ordinal alternatives  *)
(* '1st', '2ND', ... need a digit followed by st/nd/rd/th, which no name   *)
(* of this model contains.)                                                *)
(***************************************************************************)
RECURSIVE WordsFrom(_, _)
WordsFrom(s, i) ==
    IF i > Len(s) THEN <<>>
    ELSE IF s[i] \in Digit THEN
        LET n == RunLen(s, i, Digit)
        IN  <<SubSeq(s, i, i + n - 1)>> \o WordsFrom(s, i + n)
    ELSE IF s[i] \in Lower THEN
        LET n == RunLen(s, i, Lower)
        IN  <<SubSeq(s, i, i + n - 1)>> \o WordsFrom(s, i + n)
    ELSE IF s[i] \in Upper THEN
        IF i < Len(s) /\ s[i + 1] \in Lower THEN
            LET n == RunLen(s, i + 1, Lower)
            IN  <<SubSeq(s, i, i + n)>> \o WordsFrom(s, i + n + 1)
        ELSE
            LET k == RunLen(s, i, Upper)
                n == IF i + k <= Len(s) /\ s[i + k] \in Lower THEN k - 1 ELSE k
            IN  <<SubSeq(s, i, i + n - 1)>> \o WordsFrom(s, i + n)
    ELSE WordsFrom(s, i + 1)

words(s) == WordsFrom(s, 1)

\* lodash camelCase: the first word lower-cased, the others capitalised, concatenated
RECURSIVE CamelJoin(_, _)
CamelJoin(ws, index) ==
    IF ws = <<>> THEN <<>>
    ELSE (IF index = 0 THEN toLowerCase(ws[1]) ELSE capitalize(toLowerCase(ws[1])))
         \o CamelJoin(Tail(ws), index + 1)

camelCase(s) == CamelJoin(words(s), 0)

\* lodash startCase: every word upperFirst-ed, joined by a space
RECURSIVE StartJoin(_, _)
StartJoin(ws, index) ==
    IF ws = <<>> THEN <<>>
    ELSE (IF index = 0 THEN <<>> ELSE <<" ">>) \o upperFirst(ws[1])
         \o StartJoin(Tail(ws), index + 1)

startCase(s) == StartJoin(words(s), 0)

\* lodash snakeCase: every word lower-cased, joined by '_'
RECURSIVE SnakeJoin(_, _)
SnakeJoin(ws, index) ==
    IF ws = <<>> THEN <<>>
    ELSE (IF index = 0 THEN <<>> ELSE <<"_">>) \o toLowerCase(ws[1])
         \o SnakeJoin(Tail(ws), index + 1)

snakeCase(s) == SnakeJoin(words(s), 0)

\* the custom suffix '__c'
CustomSuffix == <<"_", "_", "c">>

\* String.prototype.endsWith
endsWith(s, suffix) ==
    /\ Len(s) >= Len(suffix)
    /\ SubSeq(s, Len(s) - Len(suffix) + 1, Len(s)) = suffix

\* String.prototype.slice(0, -n)
sliceEnd(s, n) == IF Len(s) <= n THEN <<>> ELSE SubSeq(s, 1, Len(s) - n)

\* adapter.ts sfCase: the wire name
sfCase(name, custom) ==
    startCase(camelCase(name)) \o (IF custom = TRUE THEN CustomSuffix ELSE <<>>)

\* adapter.ts bpCase: the internal name
bpCase(name) ==
    IF endsWith(name, CustomSuffix) THEN sliceEnd(snakeCase(name), 3) ELSE snakeCase(name)

(***************************************************************************)
(* Client results and diagnose.                                            *)
(*                                                                         *)
(* A save result carries no errors (errors undefined), one error entry, or *)
(* a list of error entries; a client result is one save result or an array *)
(* of them.  An error entry is its message.                                *)
(***************************************************************************)
\* Array.prototype.join
RECURSIVE join(_, _)
join(strs, sep) ==
    IF strs = <<>> THEN <<>>
    ELSE IF Len(strs) = 1 THEN strs[1]
    ELSE strs[1] \o sep \o join(Tail(strs), sep)

NewLine == <<"\n">>

\* errors undefined / a single SfError / an SfError[]
NoErrors == [kind |-> "none", msgs |-> <<>>]
OneError(m) == [kind |-> "one", msgs |-> <<m>>]
ErrorList(ms) == [kind |-> "list", msgs |-> ms]

SaveResult(e) == [errors |-> e]
Single(r) == [isArray |-> FALSE, items |-> <<r>>]
Array(rs) == [isArray |-> TRUE, items |-> rs]

\* errorMessage without the array case: only the first entry's message
errorMessage_FirstOnly(error) ==
    IF error.msgs = <<>> THEN <<"u","n","d","e","f","i","n","e","d">> ELSE error.msgs[1]

\* diagnose's inner errorMessage
errorMessage(error) ==
    IF error.kind = "list" THEN join(error.msgs, NewLine) ELSE error.msgs[1]

\* the array branch keeps the results whose errors are not undefined
ArrayErrorsTest(r) == r.errors.kind # "none"

\* the single branch tests the truthiness of errors (an entry or any array)
SingleErrorsTest(r) == r.errors.kind # "none"

\* result.filter(r => r.errors !== undefined)
RECURSIVE filterErrors(_)
filterErrors(items) ==
    IF items = <<>> THEN <<>>
    ELSE (IF ArrayErrorsTest(items[1]) THEN <<items[1]>> ELSE <<>>)
         \o filterErrors(Tail(items))

\* the errors diagnose collects, one string per save result that has errors
diagnoseErrors(result) ==
    IF result.isArray
    THEN LET bad == filterErrors(result.items)
         IN  [i \in 1..Len(bad) |-> errorMessage(bad[i].errors)]
    ELSE IF SingleErrorsTest(result.items[1])
         THEN <<errorMessage(result.items[1].errors)>>
         ELSE <<>>

\* diagnose without the array branch: an array-shaped result never throws
diagnose_SingleOnly(result) ==
    LET errors == IF result.isArray THEN <<>> ELSE diagnoseErrors(result)
    IN  IF Len(errors) > 0
        THEN [thrown |-> TRUE, message |-> join(errors, NewLine)]
        ELSE [thrown |-> FALSE, message |-> <<>>]

\* diagnose: throws Error(errors.join('\n')) when it collected an error
diagnose(result) ==
    LET errors == diagnoseErrors(result)
    IN  IF Len(errors) > 0
        THEN [thrown |-> TRUE, message |-> join(errors, NewLine)]
        ELSE [thrown |-> FALSE, message |-> <<>>]

\* the messages of error entries
Messages == {<<"e", "1">>, <<"e", "2">>}

RECURSIVE SeqsUpTo(_, _)
SeqsUpTo(S, n) ==
    IF n = 0 THEN {<<>>}
    ELSE LET shorter == SeqsUpTo(S, n - 1)
         IN  shorter \cup {Append(s, x) : s \in shorter, x \in S}

ErrorsValues ==
    {NoErrors} \cup {OneError(m) : m \in Messages}
               \cup {ErrorList(ms) : ms \in SeqsUpTo(Messages, MaxErrors)}

SaveResults == {SaveResult(e) : e \in ErrorsValues}

ClientResults ==
    {Single(r) : r \in SaveResults} \cup {Array(rs) : rs \in SeqsUpTo(SaveResults, MaxResults)}

NoOutcome == [thrown |-> FALSE, message |-> <<>>]

DgIdle ==
    /\ dgPc = "idle"
    /\ dgResult = Single(SaveResult(NoErrors))
    /\ dgOut = NoOutcome

DgInit ==
    /\ dgPc = "start"
    /\ dgResult \in ClientResults
    /\ dgOut = NoOutcome

\* diagnose(result)
DgDiagnose ==
    /\ dgPc = "start"
    /\ dgOut' = diagnose(dgResult)
    /\ dgPc' = "done"
    /\ UNCHANGED dgResult
    /\ UNCHANGED nonDgVars

DgNext == DgDiagnose

\* every error message of the result, in result order
RECURSIVE allMessages(_)
allMessages(items) ==
    IF items = <<>> THEN <<>> ELSE items[1].errors.msgs \o allMessages(Tail(items))

\* every save result of the result carries one error entry or a list of entries
EachCarriesErrors(result) ==
    /\ result.items # <<>>
    /\ \A i \in 1..Len(result.items) : result.items[i].errors.msgs # <<>>

\* C10: for a single save result or an array of save results, each carrying
\* one error entry or a list of error entries, diagnose raises one error whose
\* message is the newline-joined sequence of every error message, in result order.
C10_Aggregated ==
    (dgPc = "done" /\ EachCarriesErrors(dgResult)) =>
        /\ dgOut.thrown
        /\ dgOut.message = join(allMessages(dgResult.items), NewLine)

\* C10 witness: an array of two results, one with a single entry and one with
\* a list of two, was diagnosed.
C10_Witness ==
    /\ dgPc = "done"
    /\ dgResult.isArray
    /\ Len(dgResult.items) = 2
    /\ dgResult.items[1].errors.kind = "one"
    /\ dgResult.items[2].errors.kind = "list"
    /\ Len(dgResult.items[2].errors.msgs) = 2
    /\ dgResult.items[1].errors.msgs[1] # dgResult.items[2].errors.msgs[1]
    /\ dgOut.thrown

(***************************************************************************)
(* Elements.                                                               *)
(*                                                                         *)
(* An object type has a name (typeID.name), the API_NAME and LABEL         *)
(* annotations, and fields by name; a field has the same two annotations.  *)
(* A missing annotation reads as undefined.  The attributes the adapter    *)
(* only copies into the payload (type name, required, picklist values) are *)
(* left out.  Elements are values, so clone() is a copy by construction.   *)
(***************************************************************************)
\* the value of a missing annotation; no string of characters equals it
Undefined == <<"undefined">>

\* a value inside a template literal
Interp(v) == IF v = Undefined THEN <<"u","n","d","e","f","i","n","e","d">> ELSE v

\* !value, for a string or undefined
Falsy(v) == v = Undefined \/ v = <<>>

\* constants.ts
CUSTOM_FIELD == <<"CustomField">>
CUSTOM_OBJECT == <<"CustomObject">>
METADATA_PROFILE_OBJECT == <<"Profile">>
PROFILE_NAME_SYSTEM_ADMINISTRATOR == <<"A","d","m","i","n">>

\* the names fields are drawn from, in the order objects hold them
FieldPool == << <<"a">>, <<"b">>, <<"m","y","_","f">> >>
FieldNames == {FieldPool[i] : i \in DOMAIN FieldPool}

\* Object.keys / Object.entries order of a set of field names
OrderedNames(S) == SelectSeq(FieldPool, LAMBDA n : n \in S)

\* innerAnnotate without the tests: the annotations are always synthesized
innerAnnotate_Always(obj, name) ==
    [obj EXCEPT !.api = sfCase(name, TRUE), !.label = sfCase(name, FALSE)]

\* annotateApiNameAndLabel's innerAnnotate
innerAnnotate(obj, name) ==
    [obj EXCEPT
        !.api = IF Falsy(obj.api) THEN sfCase(name, TRUE) ELSE obj.api,
        !.label = IF Falsy(obj.label) THEN sfCase(name, FALSE) ELSE obj.label]

\* annotateApiNameAndLabel: the object, then each of its fields
annotateApiNameAndLabel(e) ==
    LET o == innerAnnotate(e, e.name)
    IN  [o EXCEPT !.fields = [n \in DOMAIN e.fields |-> innerAnnotate(e.fields[n], n)]]

fieldFullName(typeApiName, fieldApiName) ==
    Interp(typeApiName) \o <<".">> \o Interp(fieldApiName)

toCustomField(field, fullname, objectName) ==
    [fullName |-> IF fullname THEN fieldFullName(objectName, field.api) ELSE field.api,
     label |-> field.label]

toCustomObject(e) ==
    LET ns == OrderedNames(DOMAIN e.fields)
    IN  [fullName |-> e.api,
         label |-> e.label,
         fields |-> [i \in 1..Len(ns) |-> toCustomField(e.fields[ns[i]], FALSE, <<>>)]]

apiName(e) == e.api

\* ObjectType.getFieldsThatAreNotInOther (adapter-api): the names of this
\* object's fields that are not names of the other's fields
getFieldsThatAreNotInOther(this, other) ==
    OrderedNames(DOMAIN this.fields \ DOMAIN other.fields)

\* Array.prototype.includes
includes(seq, x) == \E i \in 1..Len(seq) : seq[i] = x

(***************************************************************************)
(* Client calls, as the adapter issues them.                               *)
(***************************************************************************)
Call(method, type, payload) == [method |-> method, type |-> type, payload |-> payload]

\* updatePermissions naming the fields without the object's API name
updatePermissions_Unqualified(objectApiName, fieldsApiName) ==
    Call("update", METADATA_PROFILE_OBJECT,
         [fullName |-> PROFILE_NAME_SYSTEM_ADMINISTRATOR,
          fieldPermissions |->
              [i \in 1..Len(fieldsApiName) |->
                  [field |-> fieldsApiName[i], editable |-> TRUE, readable |-> TRUE]]])

\* updatePermissions: client.update(Profile, ProfileInfo(Admin, permissions))
updatePermissions(objectApiName, fieldsApiName) ==
    Call("update", METADATA_PROFILE_OBJECT,
         [fullName |-> PROFILE_NAME_SYSTEM_ADMINISTRATOR,
          fieldPermissions |->
              [i \in 1..Len(fieldsApiName) |->
                  [field |-> fieldFullName(objectApiName, fieldsApiName[i]),
                   editable |-> TRUE,
                   readable |-> TRUE]]])

\* add's create call
addCreateCall(p) == Call("create", CUSTOM_OBJECT, toCustomObject(p))

\* add's permission call: every field of the object
addPermissionsCall(p) ==
    LET ns == OrderedNames(DOMAIN p.fields)
    IN  updatePermissions(apiName(p), [i \in 1..Len(ns) |-> apiName(p.fields[ns[i]])])

\* remove's delete call
removeCall(e) == Call("delete", CUSTOM_OBJECT, apiName(e))

\* the precondition comparing prevElement's API name with itself
apiNamesDiffer_SelfCompare(p, prev) == apiName(prev) # apiName(prev)

\* update's precondition: the API names of the normalised clone and of prevElement
apiNamesDiffer(p, prev) == apiName(p) # apiName(prev)

\* the fields to delete without the filter: every field of prevElement
updateFieldsToDelete_AllPrev(prev, p) ==
    LET ns == OrderedNames(DOMAIN prev.fields)
    IN  [i \in 1..Len(ns) |-> apiName(prev.fields[ns[i]])]

\* update: the API names of the fields to delete
updateFieldsToDelete(prev, p) ==
    LET ns == SelectSeq(OrderedNames(DOMAIN prev.fields),
                        LAMBDA n : includes(getFieldsThatAreNotInOther(prev, p), n))
    IN  [i \in 1..Len(ns) |-> apiName(prev.fields[ns[i]])]

\* the fields to create without the filter: every field of the clone
updateFieldsToAdd_AllPost(prev, p) ==
    LET ns == OrderedNames(DOMAIN p.fields)
    IN  [i \in 1..Len(ns) |-> p.fields[ns[i]]]

\* update: the fields to create
updateFieldsToAdd(prev, p) ==
    LET ns == SelectSeq(OrderedNames(DOMAIN p.fields),
                        LAMBDA n : includes(getFieldsThatAreNotInOther(p, prev), n))
    IN  [i \in 1..Len(ns) |-> p.fields[ns[i]]]

\* deleteCustomFields' delete call
deleteCustomFieldsCall(objectApiName, fieldsApiName) ==
    Call("delete", CUSTOM_FIELD,
         [i \in 1..Len(fieldsApiName) |-> fieldFullName(objectApiName, fieldsApiName[i])])

\* createFields' create call
createFieldsCall(relatedObjectApiName, fieldsToAdd) ==
    Call("create", CUSTOM_FIELD,
         [i \in 1..Len(fieldsToAdd) |-> toCustomField(fieldsToAdd[i], TRUE, relatedObjectApiName)])

\* createFields' permission call
createFieldsPermissionsCall(relatedObjectApiName, fieldsToAdd) ==
    updatePermissions(relatedObjectApiName,
                      [i \in 1..Len(fieldsToAdd) |-> apiName(fieldsToAdd[i])])

\* update's error for different API names
apiNameError(prev, p) ==
    <<"Failed to update element as api names pre=">> \o Interp(apiName(prev))
        \o <<" and post=">> \o Interp(apiName(p)) \o <<" are different">>

(***************************************************************************)
(* The arguments add / update / remove are given.                          *)
(***************************************************************************)
TypeNames == {<<"f","o","o">>, <<"b","a","r">>}
ObjectApiNames == {Undefined, <<"F","o","o","_","_","c">>, <<"B","a","r","_","_","c">>}
ObjectLabels == {Undefined, <<"L">>}

\* a field is not annotated, or carries an API name of its own
FieldApiNames(n) == {Undefined, <<"X">> \o n \o CustomSuffix}

FieldValues(n) == {[api |-> a, label |-> Undefined] : a \in FieldApiNames(n)}

FieldMaps ==
    UNION {
        {f \in [S -> UNION {FieldValues(n) : n \in S}] : \A n \in S : f[n] \in FieldValues(n)}
        : S \in {T \in SUBSET FieldNames : Cardinality(T) <= MaxFields}}

Elements ==
    {[name |-> n, api |-> a, label |-> l, fields |-> f] :
        n \in TypeNames, a \in ObjectApiNames, l \in ObjectLabels, f \in FieldMaps}

\* the previous version of an object is the product of an earlier add
PrevElements == {e \in Elements : e.name = <<"f","o","o">> /\ e.label = Undefined}

NoElement == [name |-> <<>>, api |-> Undefined, label |-> Undefined, fields |-> <<>>]

\* what the client answers to a call
OkResult == SaveResult(NoErrors)
CrudResults ==
    { Single(OkResult),
      Array(<<OkResult, OkResult>>),
      Single(SaveResult(OneError(<<"e", "1">>))),
      Array(<<OkResult, SaveResult(ErrorList(<<<<"e", "1">>, <<"e", "2">>>>))>>) }

OpIdle ==
    /\ op = "idle"
    /\ pc = "idle"
    /\ prevElement = NoElement
    /\ element = NoElement
    /\ post = NoElement
    /\ calls = <<>>
    /\ results = <<>>
    /\ retval = NoElement
    /\ outcome = "none"
    /\ errMsg = <<>>

OpInit ==
    /\ op = "none"
    /\ pc = "start"
    /\ prevElement = NoElement
    /\ element = NoElement
    /\ post = NoElement
    /\ calls = <<>>
    /\ results = <<>>
    /\ retval = NoElement
    /\ outcome = "none"
    /\ errMsg = <<>>

\* the operation throws (its promise rejects) with this message
Raise(msg) ==
    /\ outcome' = "raised"
    /\ errMsg' = msg
    /\ retval' = NoElement
    /\ pc' = "done"

\* the operation returns this value
Return(value) ==
    /\ outcome' = "returned"
    /\ errMsg' = <<>>
    /\ retval' = value
    /\ pc' = "done"

\* the operation issues a client call and awaits its result
Issue(call, next) ==
    /\ calls' = Append(calls, call)
    /\ pc' = next
    /\ outcome' = "running"
    /\ errMsg' = <<>>
    /\ retval' = NoElement

\* add(element), up to its create call
AddStart ==
    /\ op = "none"
    /\ \E e \in Elements :
        /\ op' = "add"
        /\ element' = e
        /\ post' = annotateApiNameAndLabel(e)
        /\ Issue(addCreateCall(post'), "add_create")
        /\ UNCHANGED <<prevElement, results>>
        /\ UNCHANGED nonOpVars

\* add: the create call returned; diagnose it, then the permission call
AddCreateReturn ==
    /\ pc = "add_create"
    /\ \E r \in CrudResults :
        /\ results' = Append(results, r)
        /\ IF diagnose(r).thrown
           THEN Raise(diagnose(r).message) /\ UNCHANGED calls
           ELSE Issue(addPermissionsCall(post), "add_perm")
        /\ UNCHANGED <<op, prevElement, element, post>>
        /\ UNCHANGED nonOpVars

\* add: the permission call returned; diagnose it and return post
AddPermReturn ==
    /\ pc = "add_perm"
    /\ \E r \in CrudResults :
        /\ results' = Append(results, r)
        /\ IF diagnose(r).thrown THEN Raise(diagnose(r).message) ELSE Return(post)
        /\ UNCHANGED <<op, prevElement, element, post, calls>>
        /\ UNCHANGED nonOpVars

\* remove(element), up to its delete call
RemoveStart ==
    /\ op = "none"
    /\ \E e \in Elements :
        /\ op' = "remove"
        /\ element' = e
        /\ Issue(removeCall(e), "remove_delete")
        /\ UNCHANGED <<prevElement, post, results>>
        /\ UNCHANGED nonOpVars

\* remove: the delete call returned
RemoveReturn ==
    /\ pc = "remove_delete"
    /\ \E r \in CrudResults :
        /\ results' = Append(results, r)
        /\ IF diagnose(r).thrown THEN Raise(diagnose(r).message) ELSE Return(NoElement)
        /\ UNCHANGED <<op, prevElement, element, post, calls>>
        /\ UNCHANGED nonOpVars

\* createFields(apiName(post), fieldsToAdd), up to its create call
CreateFieldsStart(prev, p) ==
    IF Len(updateFieldsToAdd(prev, p)) = 0
    THEN Return(p) /\ UNCHANGED calls
    ELSE Issue(createFieldsCall(apiName(p), updateFieldsToAdd(prev, p)), "update_create")

\* update(prevElement, newElement), up to its first client call
UpdateStart ==
    /\ op = "none"
    /\ \E prev \in PrevElements, new \in Elements :
        /\ op' = "update"
        /\ prevElement' = prev
        /\ element' = new
        /\ post' = annotateApiNameAndLabel(new)
        /\ IF apiNamesDiffer(post', prev)
           THEN Raise(apiNameError(prev, post')) /\ UNCHANGED calls
           ELSE IF Len(updateFieldsToDelete(prev, post')) = 0
                THEN CreateFieldsStart(prev, post')
                ELSE Issue(deleteCustomFieldsCall(apiName(prev), updateFieldsToDelete(prev, post')),
                           "update_delete")
        /\ UNCHANGED results
        /\ UNCHANGED nonOpVars

\* update: the delete call returned; diagnose it, then createFields
UpdateDeleteReturn ==
    /\ pc = "update_delete"
    /\ \E r \in CrudResults :
        /\ results' = Append(results, r)
        /\ IF diagnose(r).thrown
           THEN Raise(diagnose(r).message) /\ UNCHANGED calls
           ELSE CreateFieldsStart(prevElement, post)
        /\ UNCHANGED <<op, prevElement, element, post>>
        /\ UNCHANGED nonOpVars

\* update: createFields' create call returned; diagnose it, then the permission call
UpdateCreateReturn ==
    /\ pc = "update_create"
    /\ \E r \in CrudResults :
        /\ results' = Append(results, r)
        /\ IF diagnose(r).thrown
           THEN Raise(diagnose(r).message) /\ UNCHANGED calls
           ELSE Issue(createFieldsPermissionsCall(apiName(post), updateFieldsToAdd(prevElement, post)),
                      "update_perm")
        /\ UNCHANGED <<op, prevElement, element, post>>
        /\ UNCHANGED nonOpVars

\* update: createFields' permission call returned; diagnose it and return post
UpdatePermReturn ==
    /\ pc = "update_perm"
    /\ \E r \in CrudResults :
        /\ results' = Append(results, r)
        /\ IF diagnose(r).thrown THEN Raise(diagnose(r).message) ELSE Return(post)
        /\ UNCHANGED <<op, prevElement, element, post, calls>>
        /\ UNCHANGED nonOpVars

\* a client call is rejected (the network call fails): the operation rejects
ClientReject ==
    /\ pc \in {"add_create", "add_perm", "remove_delete",
               "update_delete", "update_create", "update_perm"}
    /\ Raise(<<"rejected">>)
    /\ UNCHANGED <<op, prevElement, element, post, calls, results>>
    /\ UNCHANGED nonOpVars

OpNext ==
    \/ AddStart
    \/ AddCreateReturn
    \/ AddPermReturn
    \/ RemoveStart
    \/ RemoveReturn
    \/ UpdateStart
    \/ UpdateDeleteReturn
    \/ UpdateCreateReturn
    \/ UpdatePermReturn
    \/ ClientReject

(***************************************************************************)
(* Properties of add and update.                                           *)
(***************************************************************************)
\* the calls of a method on a metadata type, in the order they were issued
CallsOf(method, type) ==
    SelectSeq(calls, LAMBDA c : c.method = method /\ c.type = type)

\* the calls of a method, whatever the type
CallsBy(method) == SelectSeq(calls, LAMBDA c : c.method = method)

\* the error messages a client result carries
EntryMessages(result) ==
    UNION {{result.items[i].errors.msgs[k] : k \in 1..Len(result.items[i].errors.msgs)}
           : i \in 1..Len(result.items)}

\* m occurs in the string s
Contains(s, m) == \E i \in 1..(Len(s) - Len(m) + 1) : SubSeq(s, i, i + Len(m) - 1) = m

\* the API name of element after normalisation
NormalizedApiName(e) == IF Falsy(e.api) THEN sfCase(e.name, TRUE) ELSE e.api

\* C1: when the API name of the normalised clone of newElement differs from
\* prevElement's, update raises and no client method was invoked at any point.
C1_MismatchRaisesBeforeAnyCall ==
    (op = "update" /\ NormalizedApiName(element) # prevElement.api) =>
        /\ outcome = "raised"
        /\ calls = <<>>
        /\ results = <<>>

\* C1 witness: prev is Foo__c, new normalises to Bar__c, the field sets differ
\* (so a delete and a create would have been due), and update has raised.
C1_Witness ==
    /\ op = "update"
    /\ prevElement.api = <<"F","o","o","_","_","c">>
    /\ post.api = <<"B","a","r","_","_","c">>
    /\ DOMAIN prevElement.fields \ DOMAIN element.fields # {}
    /\ DOMAIN element.fields \ DOMAIN prevElement.fields # {}
    /\ outcome = "raised"

\* the fields removed and added between the two versions, by name
RemovedNames == DOMAIN prevElement.fields \ DOMAIN element.fields
AddedNames == DOMAIN element.fields \ DOMAIN prevElement.fields

\* the fully-qualified names of the removed fields, as prevElement annotates them
RemovedFullNames ==
    LET ns == OrderedNames(RemovedNames)
    IN  [i \in 1..Len(ns) |-> fieldFullName(prevElement.api, prevElement.fields[ns[i]].api)]

\* the added fields, under their fully-qualified names after normalisation
AddedCustomFields ==
    LET ns == OrderedNames(AddedNames)
        norm(n) == innerAnnotate(element.fields[n], n)
    IN  [i \in 1..Len(ns) |->
            [fullName |-> fieldFullName(NormalizedApiName(element), norm(ns[i]).api),
             label |-> norm(ns[i]).label]]

\* C2 as stated: a successful update issues exactly one delete call, for the
\* fields of prev that are not in new, and exactly one create call, for the
\* fields of new that are not in prev, for every pair of field-name sets.
C2_ExactlyOneDeleteAndCreate ==
    (op = "update" /\ outcome = "returned") =>
        /\ Len(CallsBy("delete")) = 1
        /\ CallsBy("delete")[1].type = CUSTOM_FIELD
        /\ CallsBy("delete")[1].payload = RemovedFullNames
        /\ Len(CallsBy("create")) = 1
        /\ CallsBy("create")[1].type = CUSTOM_FIELD
        /\ CallsBy("create")[1].payload = AddedCustomFields

\* C2 amended: a successful update issues one delete call exactly when some
\* field of prev is not in new, and its names are exactly those fields'
\* fully-qualified names; it issues one create call exactly when some field of
\* new is not in prev, and its fields are exactly those; a field of both
\* versions is in neither call.
C2_OneCallPerNonEmptyDifference ==
    (op = "update" /\ outcome = "returned") =>
        /\ Len(CallsBy("delete")) = (IF RemovedNames = {} THEN 0 ELSE 1)
        /\ RemovedNames # {} =>
              /\ CallsBy("delete")[1].type = CUSTOM_FIELD
              /\ CallsBy("delete")[1].payload = RemovedFullNames
        /\ Len(CallsBy("create")) = (IF AddedNames = {} THEN 0 ELSE 1)
        /\ AddedNames # {} =>
              /\ CallsBy("create")[1].type = CUSTOM_FIELD
              /\ CallsBy("create")[1].payload = AddedCustomFields

\* C2 witness: prev and new share a field, prev has one more and new has
\* another one, and update returned after one delete and one create call.
C2_Witness ==
    /\ op = "update"
    /\ outcome = "returned"
    /\ Cardinality(RemovedNames) = 1
    /\ Cardinality(AddedNames) = 1
    /\ DOMAIN prevElement.fields \cap DOMAIN element.fields # {}
    /\ Len(CallsBy("delete")) = 1
    /\ Len(CallsBy("create")) = 1

\* C3: when add's create call returns a result with at least one error entry,
\* add raises an error whose message contains every such entry's message, and
\* the permission update (client.update on Profile) is never issued.
C3_CreateErrorStopsAdd ==
    (op = "add" /\ Len(results) >= 1 /\ EntryMessages(results[1]) # {}) =>
        /\ outcome = "raised"
        /\ \A m \in EntryMessages(results[1]) : Contains(errMsg, m)
        /\ CallsOf("update", METADATA_PROFILE_OBJECT) = <<>>

\* C3 witness: the create call of an object with fields returned an array
\* holding two error entries, and add raised.
C3_Witness ==
    /\ op = "add"
    /\ Len(results) = 1
    /\ results[1].isArray
    /\ Cardinality(EntryMessages(results[1])) = 2
    /\ DOMAIN element.fields # {}
    /\ outcome = "raised"

\* the CustomObject add creates: the object and all its fields inline
ExpectedCustomObject ==
    LET ns == OrderedNames(DOMAIN element.fields)
        norm(n) == innerAnnotate(element.fields[n], n)
    IN  [fullName |-> NormalizedApiName(element),
         label |-> IF Falsy(element.label) THEN sfCase(element.name, FALSE) ELSE element.label,
         fields |-> [i \in 1..Len(ns) |->
                        [fullName |-> norm(ns[i]).api, label |-> norm(ns[i]).label]]]

\* the permission entries add grants: one per field, editable and readable
ExpectedPermissions ==
    LET ns == OrderedNames(DOMAIN element.fields)
        norm(n) == innerAnnotate(element.fields[n], n)
    IN  [i \in 1..Len(ns) |->
            [field |-> NormalizedApiName(element) \o <<".">> \o norm(ns[i]).api,
             editable |-> TRUE,
             readable |-> TRUE]]

\* C4: when add's client calls return no errors, add issues exactly one
\* create call, for the object with all its fields inline, and only after it
\* returned exactly one permission update, for the Admin profile, with an
\* entry <objectApiName>.<fieldApiName>, editable and readable, for every
\* field; add then returns the normalised clone.
C4_AddCreatesThenGrants ==
    op = "add" =>
        /\ Len(calls) \in 1..2
        /\ calls[1] = Call("create", CUSTOM_OBJECT, ExpectedCustomObject)
        /\ Len(calls) = 2 =>
              /\ Len(results) >= 1
              /\ EntryMessages(results[1]) = {}
              /\ calls[2].method = "update"
              /\ calls[2].type = METADATA_PROFILE_OBJECT
              /\ calls[2].payload.fullName = <<"A","d","m","i","n">>
              /\ calls[2].payload.fieldPermissions = ExpectedPermissions
        /\ outcome = "returned" =>
              /\ Len(calls) = 2
              /\ Len(results) = 2
              /\ retval.api = NormalizedApiName(element)
              /\ retval.label = ExpectedCustomObject.label
              /\ DOMAIN retval.fields = DOMAIN element.fields
              /\ \A n \in DOMAIN element.fields :
                    retval.fields[n] = innerAnnotate(element.fields[n], n)

\* C4 witness: add of an object with two fields, one of them not annotated,
\* returned after both calls.
C4_Witness ==
    /\ op = "add"
    /\ outcome = "returned"
    /\ Cardinality(DOMAIN element.fields) = 2
    /\ \E n \in DOMAIN element.fields : element.fields[n].api = Undefined
    /\ \E n \in DOMAIN element.fields : element.fields[n].api # Undefined
    /\ element.api = Undefined
    /\ Len(calls) = 2

\* this step issues a client call of this method on this metadata type
IssuedNow(method, type) ==
    /\ Len(calls') = Len(calls) + 1
    /\ calls'[Len(calls')].method = method
    /\ calls'[Len(calls')].type = type

\* every call issued before this step has its result by the end of the step
EarlierCallsCompleted == Len(results') = Len(calls)

\* update's steps: the create call is issued only once every earlier call, and
\* the only earlier call is the delete call, has completed without errors; the
\* permission call is issued only once the create call, the call just before
\* it, has completed without errors.
UpdateIssuesInOrder ==
    op' = "update" =>
        /\ IssuedNow("create", CUSTOM_FIELD) =>
              /\ EarlierCallsCompleted
              /\ \A i \in 1..Len(calls) :
                    /\ calls[i] = Call("delete", CUSTOM_FIELD, RemovedFullNames')
                    /\ EntryMessages(results'[i]) = {}
        /\ IssuedNow("update", METADATA_PROFILE_OBJECT) =>
              /\ EarlierCallsCompleted
              /\ Len(calls) >= 1
              /\ calls[Len(calls)].method = "create"
              /\ calls[Len(calls)].type = CUSTOM_FIELD
              /\ EntryMessages(results'[Len(calls)]) = {}

\* update's states: the calls are delete, create, permission update in this
\* order, each at most once; a delete call answered with an error entry leaves
\* update raised with no create and no permission call; with no added field
\* there is no create and no permission call.
UpdateCallsInOrder ==
    op = "update" =>
        /\ Len(results) <= Len(calls)
        /\ Len(calls) <= Len(results) + 1
        /\ \A i, j \in 1..Len(calls) :
              i < j => <<calls[i].method, calls[j].method>> \in
                          {<<"delete", "create">>, <<"delete", "update">>, <<"create", "update">>}
        /\ \A i \in 1..Len(results) :
              (calls[i].method = "delete" /\ EntryMessages(results[i]) # {}) =>
                  /\ outcome = "raised"
                  /\ \A m \in EntryMessages(results[i]) : Contains(errMsg, m)
                  /\ CallsBy("create") = <<>>
                  /\ CallsOf("update", METADATA_PROFILE_OBJECT) = <<>>
        /\ AddedNames = {} =>
              /\ CallsBy("create") = <<>>
              /\ CallsOf("update", METADATA_PROFILE_OBJECT) = <<>>

\* C11: in update the batched field delete call completes before the batched
\* field create call is issued, and the permission update is issued only after
\* the create call returned without errors; when the delete call returns an
\* error entry update raises and neither the create call nor the permission
\* update is ever issued; when no field was added neither of them is issued.
C11_UpdateCallOrdering == [][UpdateIssuesInOrder]_vars /\ []UpdateCallsInOrder

\* C11 witness: fields were removed and added, and update returned after the
\* delete call, the create call and the permission update, each answered
\* without errors.
C11_Witness ==
    /\ op = "update"
    /\ outcome = "returned"
    /\ RemovedNames # {}
    /\ AddedNames # {}
    /\ Len(calls) = 3
    /\ calls[1].method = "delete"
    /\ calls[2].method = "create"
    /\ calls[3].method = "update"
    /\ calls[3].type = METADATA_PROFILE_OBJECT
    /\ Len(calls[3].payload.fieldPermissions) = Cardinality(AddedNames)
    /\ Len(results) = 3

(***************************************************************************)
(* Annotation normalisation, applied once and once more.                   *)
(***************************************************************************)
\* an annotation is missing, the empty string, or a value
AnObjectApiNames == {Undefined, <<>>, <<"F","o","o","_","_","c">>}
AnLabels == {Undefined, <<>>, <<"L">>}
AnTypeNames == {<<"f","o","o">>, <<"_">>}
AnFieldApiNames(n) == {Undefined, <<>>, <<"X">> \o n \o CustomSuffix}

AnFieldValues(n) == {[api |-> a, label |-> l] : a \in AnFieldApiNames(n), l \in AnLabels}

AnFieldMaps ==
    UNION {
        {f \in [S -> UNION {AnFieldValues(n) : n \in S}] : \A n \in S : f[n] \in AnFieldValues(n)}
        : S \in {T \in SUBSET FieldNames : Cardinality(T) <= MaxFields}}

AnElements ==
    {[name |-> n, api |-> a, label |-> l, fields |-> f] :
        n \in AnTypeNames, a \in AnObjectApiNames, l \in AnLabels, f \in AnFieldMaps}

AnIdle ==
    /\ anPc = "idle"
    /\ anElement = NoElement
    /\ anOnce = NoElement
    /\ anTwice = NoElement

AnInit ==
    /\ anPc = "start"
    /\ anElement \in AnElements
    /\ anOnce = NoElement
    /\ anTwice = NoElement

\* annotateApiNameAndLabel(element)
AnAnnotate ==
    /\ anPc = "start"
    /\ anOnce' = annotateApiNameAndLabel(anElement)
    /\ anPc' = "once"
    /\ UNCHANGED <<anElement, anTwice>>
    /\ UNCHANGED nonAnVars

\* annotateApiNameAndLabel(element), on the element already normalised
AnAnnotateAgain ==
    /\ anPc = "once"
    /\ anTwice' = annotateApiNameAndLabel(anOnce)
    /\ anPc' = "twice"
    /\ UNCHANGED <<anElement, anOnce>>
    /\ UNCHANGED nonAnVars

AnNext == AnAnnotate \/ AnAnnotateAgain

\* an object or field carries an API name and a label (a missing or empty
\* annotation counts as not carried)
Carries(obj) == ~Falsy(obj.api) /\ ~Falsy(obj.label)

\* the two annotations of an object or field
Annotations(obj) == <<obj.api, obj.label>>

\* C5: annotateApiNameAndLabel is idempotent: applied twice it yields the same
\* API-name and label annotations, on the object and on each of its fields, as
\* applied once; and what already carries an API name and a label is untouched.
C5_Idempotent ==
    /\ anPc = "twice" =>
          /\ Annotations(anTwice) = Annotations(anOnce)
          /\ DOMAIN anTwice.fields = DOMAIN anOnce.fields
          /\ \A n \in DOMAIN anOnce.fields :
                Annotations(anTwice.fields[n]) = Annotations(anOnce.fields[n])
    /\ anPc \in {"once", "twice"} =>
          /\ Carries(anElement) => Annotations(anOnce) = Annotations(anElement)
          /\ DOMAIN anOnce.fields = DOMAIN anElement.fields
          /\ \A n \in DOMAIN anElement.fields :
                Carries(anElement.fields[n]) =>
                    Annotations(anOnce.fields[n]) = Annotations(anElement.fields[n])

\* C5 witness: an object without annotations that has one annotated and one
\* unannotated field was normalised twice.
C5_Witness ==
    /\ anPc = "twice"
    /\ anElement.api = Undefined
    /\ anElement.label = Undefined
    /\ \E n \in DOMAIN anElement.fields : Carries(anElement.fields[n])
    /\ \E n \in DOMAIN anElement.fields :
          /\ anElement.fields[n].api = Undefined
          /\ anElement.fields[n].label = Undefined
          /\ anOnce.fields[n].api # Undefined

(***************************************************************************)
(* Discovery: a field descriptor becomes a field element.                  *)
(*                                                                         *)
(* A field element has a type id and annotations.  An annotation that was  *)
(* not set is Undefined ("absent" for the restricted-picklist flag); the   *)
(* default annotation is undefined, a scalar or a list.  Picklist values   *)
(* are atoms.                                                              *)
(***************************************************************************)
SALESFORCE == <<"salesforce">>

NoDefault == [kind |-> "undefined", vals |-> <<>>]
ScalarDefault(v) == [kind |-> "scalar", vals |-> <<v>>]
ListDefault(vs) == [kind |-> "list", vals |-> vs]

TypeNamePicklist == <<"p","i","c","k","l","i","s","t">>
TypeNameMultiPicklist == <<"m","u","l","t","i","p","i","c","k","l","i","s","t">>
TypeNameString == <<"s","t","r","i","n","g">>
TypeNameDouble == <<"d","o","u","b","l","e">>
TypeNameBoolean == <<"b","o","o","l","e","a","n">>

\* getType: the type id of the clone the registry returns for a type name
getType(name) ==
    LET typeName == bpCase(name)
    IN  IF typeName = TypeNameString THEN [adapter |-> <<>>, name |-> name]
        ELSE IF typeName = TypeNameDouble THEN [adapter |-> <<>>, name |-> <<"n","u","m","b","e","r">>]
        ELSE IF typeName = TypeNameBoolean
             THEN [adapter |-> SALESFORCE, name |-> <<"c","h","e","c","k","b","o","x">>]
        ELSE [adapter |-> SALESFORCE, name |-> name]

\* a fresh clone: no annotation is set
NewTypeElement(typeID) ==
    [typeID |-> typeID,
     api |-> Undefined,
     label |-> Undefined,
     required |-> Undefined,
     default |-> NoDefault,
     values |-> Undefined,
     restricted |-> "absent",
     flsSet |-> FALSE,
     fls |-> <<>>]

\* picklistValues.map(val => val.value)
picklistValueNames(picklist) == [i \in 1..Len(picklist) |-> picklist[i].value]

\* the default-flagged values taken for every value, flagged or not
picklistDefaults_All(picklist) == picklistValueNames(picklist)

\* picklistValues.filter(val => val.defaultValue === true).map(val => val.value)
picklistDefaults(picklist) ==
    picklistValueNames(SelectSeq(picklist, LAMBDA val : val.defaultValue = TRUE))

\* Array.prototype.pop: the last element
pop(seq) == seq[Len(seq)]

\* createSObjectFieldTypeElement
createSObjectFieldTypeElement(field) ==
    LET fresh == NewTypeElement(getType(field.type))
        annotated == [fresh EXCEPT
                         !.label = field.label,
                         !.required = field.nillable,
                         !.default = field.defaultValue]
        defaults == picklistDefaults(field.picklistValues)
    IN  IF Len(field.picklistValues) > 0
        THEN [annotated EXCEPT
                 !.values = picklistValueNames(field.picklistValues),
                 !.restricted = IF field.restrictedPicklist THEN "true" ELSE "false",
                 !.default = IF Len(defaults) > 0
                             THEN IF field.type = TypeNamePicklist
                                  THEN ScalarDefault(pop(defaults))
                                  ELSE ListDefault(defaults)
                             ELSE @]
        ELSE annotated

\* createMetadataFieldTypeElement
createMetadataFieldTypeElement(field) ==
    LET fresh == NewTypeElement(getType(field.soapType))
        annotated == [fresh EXCEPT !.required = field.valueRequired]
        defaults == picklistDefaults(field.picklistValues)
    IN  IF Len(field.picklistValues) > 0
        THEN [annotated EXCEPT
                 !.values = picklistValueNames(field.picklistValues),
                 !.default = IF Len(defaults) = 1
                             THEN ScalarDefault(pop(defaults))
                             ELSE ListDefault(defaults)]
        ELSE annotated

\* the field descriptors the client returns
PicklistEntries == {[value |-> v, defaultValue |-> d] : v \in {"A", "B"}, d \in BOOLEAN}
Picklists == SeqsUpTo(PicklistEntries, MaxPicklist)
FieldTypeNames == {TypeNamePicklist, TypeNameMultiPicklist, TypeNameString}

FieldDescriptors ==
    {[name |-> <<"N","a","m","e">>, type |-> t, soapType |-> t, label |-> <<"L">>,
      nillable |-> b, valueRequired |-> b, defaultValue |-> d,
      picklistValues |-> pl, restrictedPicklist |-> r] :
        t \in FieldTypeNames, b \in BOOLEAN, d \in {NoDefault, ScalarDefault("D")},
        pl \in Picklists, r \in BOOLEAN}

NoField ==
    [name |-> <<>>, type |-> <<>>, soapType |-> <<>>, label |-> <<>>,
     nillable |-> FALSE, valueRequired |-> FALSE, defaultValue |-> NoDefault,
     picklistValues |-> <<>>, restrictedPicklist |-> FALSE]

FmIdle ==
    /\ fmPc = "idle"
    /\ fmPass = "none"
    /\ fmField = NoField
    /\ fmElement = NewTypeElement(getType(<<>>))

FmInit ==
    /\ fmPc = "start"
    /\ fmPass \in {"sobject", "metadata"}
    /\ fmField \in FieldDescriptors
    /\ fmElement = NewTypeElement(getType(<<>>))

\* the data-object pass maps a field
FmSObjectField ==
    /\ fmPc = "start"
    /\ fmPass = "sobject"
    /\ fmElement' = createSObjectFieldTypeElement(fmField)
    /\ fmPc' = "done"
    /\ UNCHANGED <<fmPass, fmField>>
    /\ UNCHANGED nonFmVars

\* the metadata-type pass maps a field
FmMetadataField ==
    /\ fmPc = "start"
    /\ fmPass = "metadata"
    /\ fmElement' = createMetadataFieldTypeElement(fmField)
    /\ fmPc' = "done"
    /\ UNCHANGED <<fmPass, fmField>>
    /\ UNCHANGED nonFmVars

FmNext == FmSObjectField \/ FmMetadataField

\* the values of the field's picklist that are flagged default, in order
Flagged ==
    LET idx == {i \in 1..Len(fmField.picklistValues) : fmField.picklistValues[i].defaultValue}
        RECURSIVE pick(_)
        pick(i) == IF i > Len(fmField.picklistValues) THEN <<>>
                   ELSE (IF i \in idx THEN <<fmField.picklistValues[i].value>> ELSE <<>>)
                        \o pick(i + 1)
    IN  pick(1)

METADATA_OBJECT_NAME_FIELD == <<"f","u","l","l","N","a","m","e">>

\* f with f[k] = v
SetIn(f, k, v) == [x \in DOMAIN f \cup {k} |-> IF x = k THEN v ELSE f[x]]

\* a field element annotated with its API name
withApiName(fieldElement, name) == [fieldElement EXCEPT !.api = name]

\* createSObjectTypeElement: element.fields[bpCase(field.name)] = fieldElement, in order
RECURSIVE sobjectFields(_, _)
sobjectFields(fields, acc) ==
    IF fields = <<>> THEN acc
    ELSE sobjectFields(Tail(fields),
             SetIn(acc, bpCase(fields[1].name),
                   withApiName(createSObjectFieldTypeElement(fields[1]), fields[1].name)))

createSObjectTypeElement(objectName, fields) ==
    [typeID |-> getType(objectName), api |-> objectName, fields |-> sobjectFields(fields, <<>>)]

\* createMetadataTypeElement: the same, without the field named fullName
RECURSIVE metadataFields(_, _)
metadataFields(fields, acc) ==
    IF fields = <<>> THEN acc
    ELSE metadataFields(Tail(fields),
             IF fields[1].name # METADATA_OBJECT_NAME_FIELD
             THEN SetIn(acc, bpCase(fields[1].name),
                        withApiName(createMetadataFieldTypeElement(fields[1]), fields[1].name))
             ELSE acc)

\* described = FALSE stands for discoverMetadataObject returning nothing
createMetadataTypeElement(objectName, described, fields) ==
    [typeID |-> getType(objectName), api |-> objectName,
     fields |-> IF described THEN metadataFields(fields, <<>>) ELSE <<>>]

\* Map.prototype.set on a map kept as the sequence of its entries, in
\* insertion order: an existing key keeps its place and takes the new value
mapSet(entries, key, value) ==
    IF \E i \in 1..Len(entries) : entries[i].key = key
    THEN [i \in 1..Len(entries) |->
             IF entries[i].key = key THEN [key |-> key, value |-> value] ELSE entries[i]]
    ELSE Append(entries, [key |-> key, value |-> value])

\* discoverPermissions: permissions.get(name).set(info.fullName, fieldPermission)
RECURSIVE indexProfile(_, _, _)
indexProfile(fullName, fieldPermissions, acc) ==
    IF fieldPermissions = <<>> THEN acc
    ELSE LET name == fieldPermissions[1].field
             old == IF name \in DOMAIN acc THEN acc[name] ELSE <<>>
         IN  indexProfile(fullName, Tail(fieldPermissions),
                          SetIn(acc, name, mapSet(old, fullName, fieldPermissions[1])))

RECURSIVE indexProfiles(_, _)
indexProfiles(profilesInfo, acc) ==
    IF profilesInfo = <<>> THEN acc
    ELSE indexProfiles(Tail(profilesInfo),
                       indexProfile(profilesInfo[1].fullName, profilesInfo[1].fieldPermissions, acc))

\* the index: fully-qualified field name -> (profile -> permission)
discoverPermissions(profilesInfo) == indexProfiles(profilesInfo, <<>>)

\* the annotation keyed by the profile names as the client gave them
RECURSIVE fieldLevelSecurity_RawProfileName(_)
fieldLevelSecurity_RawProfileName(fieldPermission) ==
    IF fieldPermission = <<>> THEN <<>>
    ELSE LET e == fieldPermission[Len(fieldPermission)]
         IN  SetIn(fieldLevelSecurity_RawProfileName(SubSeq(fieldPermission, 1, Len(fieldPermission) - 1)),
                   e.key,
                   [editable |-> e.value.editable, readable |-> e.value.readable])

\* the FIELD_LEVEL_SECURITY annotation made of a field's index entry:
\* fieldPermission.forEach sets [bpCase(profile)] = {editable, readable}
RECURSIVE fieldLevelSecurity(_)
fieldLevelSecurity(fieldPermission) ==
    IF fieldPermission = <<>> THEN <<>>
    ELSE LET e == fieldPermission[Len(fieldPermission)]
         IN  SetIn(fieldLevelSecurity(SubSeq(fieldPermission, 1, Len(fieldPermission) - 1)),
                   bpCase(e.key),
                   [editable |-> e.value.editable, readable |-> e.value.readable])

\* discoverSObjects' loop over one field
annotateFieldPermissions(sobject, field, permissions) ==
    LET key == Interp(sobject.api) \o <<".">> \o Interp(field.api)
    IN  IF key \in DOMAIN permissions
        THEN [field EXCEPT !.flsSet = TRUE, !.fls = fieldLevelSecurity(permissions[key])]
        ELSE field

\* discoverSObjects' loop over the objects and their fields
annotatePermissions(sobjects, permissions) ==
    [i \in DOMAIN sobjects |->
        [sobjects[i] EXCEPT
            !.fields = [k \in DOMAIN sobjects[i].fields |->
                           annotateFieldPermissions(sobjects[i], sobjects[i].fields[k],
                                                    permissions)]]]

\* listMetadataTypes' result without the CustomObject type
RECURSIVE withoutCustomObject(_)
withoutCustomObject(objects) ==
    IF objects = <<>> THEN <<>>
    ELSE (IF objects[1] # CUSTOM_OBJECT THEN <<objects[1]>> ELSE <<>>)
         \o withoutCustomObject(Tail(objects))

\* Promise.all of the two passes resolves
bothPassesDone_EitherPass(s, m) == s.pc = "done" \/ m.pc = "done"

bothPassesDone(s, m) == s.pc = "done" /\ m.pc = "done"

(***************************************************************************)
(* What the client answers during discovery.                               *)
(***************************************************************************)
ACCOUNT == <<"A","c","c","o","u","n","t">>
LEAD == <<"L","e","a","d">>
FLOW == <<"F","l","o","w">>
STANDARD == <<"S","t","a","n","d","a","r","d">>

SObjectLists == {<<>>, <<ACCOUNT>>, <<LEAD>>, <<ACCOUNT, LEAD>>}

NameField ==
    [name |-> <<"N","a","m","e">>, type |-> TypeNameString, soapType |-> TypeNameString,
     label |-> <<"L">>, nillable |-> FALSE, valueRequired |-> TRUE,
     defaultValue |-> NoDefault, picklistValues |-> <<>>, restrictedPicklist |-> FALSE]

PickField ==
    [name |-> <<"P","i","c","k","_","_","c">>, type |-> TypeNamePicklist,
     soapType |-> TypeNamePicklist, label |-> <<"L">>, nillable |-> TRUE,
     valueRequired |-> FALSE, defaultValue |-> NoDefault,
     picklistValues |-> <<[value |-> "A", defaultValue |-> TRUE],
                          [value |-> "B", defaultValue |-> FALSE]>>,
     restrictedPicklist |-> TRUE]

FullNameField == [NameField EXCEPT !.name = METADATA_OBJECT_NAME_FIELD]

SObjectDescriptions == {<<>>, <<NameField>>, <<NameField, PickField>>}
MetadataDescriptions == {<<>>, <<FullNameField, PickField>>}

ProfileLists == {<<>>, <<PROFILE_NAME_SYSTEM_ADMINISTRATOR>>,
                 <<PROFILE_NAME_SYSTEM_ADMINISTRATOR, STANDARD>>}

Permission(object, field, editable, readable) ==
    [field |-> object \o <<".">> \o field, editable |-> editable, readable |-> readable]

FieldPermissionLists ==
    { <<>>,
      <<Permission(ACCOUNT, NameField.name, TRUE, TRUE)>>,
      <<Permission(ACCOUNT, NameField.name, FALSE, TRUE),
        Permission(LEAD, NameField.name, TRUE, FALSE)>>,
      <<Permission(ACCOUNT, PickField.name, FALSE, FALSE)>> }

MetadataTypeLists == {<<>>, <<CUSTOM_OBJECT>>, <<FLOW>>, <<CUSTOM_OBJECT, FLOW>>}

NoObject == [typeID |-> getType(<<>>), api |-> Undefined, fields |-> <<>>]
NoProfileInfo == [fullName |-> <<>>, fieldPermissions |-> <<>>]

PassIdle(pos) ==
    [pc |-> pos, names |-> <<>>, pending |-> {}, objects |-> <<>>,
     profiles |-> <<>>, reading |-> {}, profilesInfo |-> <<>>, permissions |-> <<>>]

DcIdle ==
    /\ dcS = PassIdle("idle")
    /\ dcM = PassIdle("idle")
    /\ dcOut = [status |-> "idle", elements |-> <<>>]

DcInit ==
    /\ dcS = PassIdle("start")
    /\ dcM = PassIdle("start")
    /\ dcOut = [status |-> "none", elements |-> <<>>]

\* Promise.all([discoverSObjects(), discoverMetadataTypes()]) resolves or stays pending
Joined(s, m) ==
    IF bothPassesDone(s, m)
    THEN [status |-> "returned", elements |-> s.objects \o m.objects]
    ELSE dcOut

\* discover(): both passes start and issue their listing calls
DcStart ==
    /\ dcOut.status = "none"
    /\ dcS' = [dcS EXCEPT !.pc = "list"]
    /\ dcM' = [dcM EXCEPT !.pc = "list"]
    /\ dcOut' = [dcOut EXCEPT !.status = "pending"]
    /\ UNCHANGED nonDcVars

\* the pass after its last profile was read (or none was listed): the index
\* is built and the permissions are attached to the fields
SObjectsFinish(s, profilesInfo) ==
    LET permissions == discoverPermissions(profilesInfo)
    IN  [s EXCEPT !.pc = "done",
                  !.reading = {},
                  !.profilesInfo = profilesInfo,
                  !.permissions = permissions,
                  !.objects = annotatePermissions(s.objects, permissions)]

\* listSObjects returned: every object is described, concurrently
SListReturn ==
    /\ dcS.pc = "list"
    /\ \E names \in SObjectLists :
          dcS' = IF names = <<>>
                 THEN [dcS EXCEPT !.pc = "perm_list"]
                 ELSE [dcS EXCEPT !.pc = "describe",
                                  !.names = names,
                                  !.pending = DOMAIN names,
                                  !.objects = [i \in DOMAIN names |-> NoObject]]
    /\ UNCHANGED <<dcM, dcOut>>
    /\ UNCHANGED nonDcVars

\* discoverSObject of one object returned; after the last one the profiles are listed
SDescribeReturn ==
    /\ dcS.pc = "describe"
    /\ \E i \in dcS.pending, fields \in SObjectDescriptions :
          dcS' = [dcS EXCEPT
                     !.objects[i] = createSObjectTypeElement(dcS.names[i], fields),
                     !.pending = @ \ {i},
                     !.pc = IF dcS.pending = {i} THEN "perm_list" ELSE @]
    /\ UNCHANGED <<dcM, dcOut>>
    /\ UNCHANGED nonDcVars

\* listMetadataObjects(Profile) returned: every profile is read, concurrently
SPermListReturn ==
    /\ dcS.pc = "perm_list"
    /\ \E profiles \in ProfileLists :
          dcS' = IF profiles = <<>>
                 THEN SObjectsFinish(dcS, <<>>)
                 ELSE [dcS EXCEPT !.pc = "perm_read",
                                  !.profiles = profiles,
                                  !.reading = DOMAIN profiles,
                                  !.profilesInfo = [i \in DOMAIN profiles |-> NoProfileInfo]]
    /\ dcOut' = Joined(dcS', dcM)
    /\ UNCHANGED dcM
    /\ UNCHANGED nonDcVars

\* readMetadata of one profile returned; after the last one the pass finishes
SPermReadReturn ==
    /\ dcS.pc = "perm_read"
    /\ \E i \in dcS.reading, fieldPermissions \in FieldPermissionLists :
          LET info == [fullName |-> dcS.profiles[i], fieldPermissions |-> fieldPermissions]
              infos == [dcS.profilesInfo EXCEPT ![i] = info]
          IN  dcS' = IF dcS.reading = {i}
                     THEN SObjectsFinish(dcS, infos)
                     ELSE [dcS EXCEPT !.profilesInfo = infos, !.reading = @ \ {i}]
    /\ dcOut' = Joined(dcS', dcM)
    /\ UNCHANGED dcM
    /\ UNCHANGED nonDcVars

\* listMetadataTypes returned: every type but CustomObject is described, concurrently
MListReturn ==
    /\ dcM.pc = "list"
    /\ \E listed \in MetadataTypeLists :
          LET names == withoutCustomObject(listed)
          IN  dcM' = IF names = <<>>
                     THEN [dcM EXCEPT !.pc = "done"]
                     ELSE [dcM EXCEPT !.pc = "describe",
                                      !.names = names,
                                      !.pending = DOMAIN names,
                                      !.objects = [i \in DOMAIN names |-> NoObject]]
    /\ dcOut' = Joined(dcS, dcM')
    /\ UNCHANGED dcS
    /\ UNCHANGED nonDcVars

\* discoverMetadataObject of one type returned; after the last one the pass is done
MDescribeReturn ==
    /\ dcM.pc = "describe"
    /\ \E i \in dcM.pending, described \in BOOLEAN, fields \in MetadataDescriptions :
          /\ ~described => fields = <<>>
          /\ dcM' = [dcM EXCEPT
                        !.objects[i] = createMetadataTypeElement(dcM.names[i], described, fields),
                        !.pending = @ \ {i},
                        !.pc = IF dcM.pending = {i} THEN "done" ELSE @]
    /\ dcOut' = Joined(dcS, dcM')
    /\ UNCHANGED dcS
    /\ UNCHANGED nonDcVars

\* a client call of the data-object pass is rejected: the pass and discover reject
SReject ==
    /\ dcS.pc \in {"list", "describe", "perm_list", "perm_read"}
    /\ dcS' = [dcS EXCEPT !.pc = "failed"]
    /\ dcOut' = [dcOut EXCEPT !.status = "rejected"]
    /\ UNCHANGED dcM
    /\ UNCHANGED nonDcVars

\* a client call of the metadata-type pass is rejected: the pass and discover reject
MReject ==
    /\ dcM.pc \in {"list", "describe"}
    /\ dcM' = [dcM EXCEPT !.pc = "failed"]
    /\ dcOut' = [dcOut EXCEPT !.status = "rejected"]
    /\ UNCHANGED dcS
    /\ UNCHANGED nonDcVars

DcNext ==
    \/ DcStart
    \/ SListReturn
    \/ SDescribeReturn
    \/ SPermListReturn
    \/ SPermReadReturn
    \/ MListReturn
    \/ MDescribeReturn
    \/ SReject
    \/ MReject

(***************************************************************************)
(* Properties of discovery.                                                *)
(***************************************************************************)
\* the fields of the discovered objects, as <<object index, field key>>
DiscoveredFields ==
    UNION {{<<i, k>> : k \in DOMAIN dcS.objects[i].fields} : i \in DOMAIN dcS.objects}

\* some field carries a FIELD_LEVEL_SECURITY annotation
SomeFieldAnnotated ==
    \E ik \in DiscoveredFields : dcS.objects[ik[1]].fields[ik[2]].flsSet

\* the fully-qualified name <objectApiName>.<fieldApiName> of a discovered field
FullNameOf(ik) ==
    dcS.objects[ik[1]].api \o <<".">> \o dcS.objects[ik[1]].fields[ik[2]].api

\* the profiles read, by index, that record a permission on a field
Recording(fullName) ==
    {j \in DOMAIN dcS.profilesInfo :
        \E n \in DOMAIN dcS.profilesInfo[j].fieldPermissions :
            dcS.profilesInfo[j].fieldPermissions[n].field = fullName}

\* the permission a profile records on a field
Recorded(j, fullName) ==
    LET ps == dcS.profilesInfo[j].fieldPermissions
        n == CHOOSE n \in DOMAIN ps : ps[n].field = fullName
    IN  [editable |-> ps[n].editable, readable |-> ps[n].readable]

C9_BothPassesBeforeAnnotation ==
    SomeFieldAnnotated => (dcS.pc = "done" /\ dcM.pc = "done")

\* C9 amended: the two passes run concurrently and discover returns only
\* after both completed, with the objects followed by the metadata types; the
\* field-level-security annotations are attached inside the data-object pass,
\* once all its objects are described and all profiles are read, whatever the
\* progress of the metadata-type pass.
C9_AnnotationInsideObjectPass ==
    /\ SomeFieldAnnotated =>
          /\ dcS.pc = "done"
          /\ dcS.pending = {}
          /\ dcS.reading = {}
    /\ dcOut.status = "returned" =>
          /\ dcS.pc = "done"
          /\ dcM.pc = "done"
          /\ dcOut.elements = dcS.objects \o dcM.objects
    /\ (dcS.pc = "done" /\ dcM.pc = "done") => dcOut.status = "returned"

\* C9 witness: a field carries its annotation while the metadata-type pass
\* still waits for the list of metadata types, and discover is pending.
C9_Witness ==
    /\ SomeFieldAnnotated
    /\ dcM.pc = "list"
    /\ dcOut.status = "pending"

(***************************************************************************)
(* Naming: a name is converted to its wire name and back.                  *)
(***************************************************************************)
\* the characters names are drawn from
NameChars == {"a", "b", "A", "1", "_", " "}

RECURSIVE StringsUpTo(_)
StringsUpTo(n) ==
    IF n = 0 THEN {<<>>}
    ELSE LET shorter == StringsUpTo(n - 1)
         IN  shorter \cup {Append(s, c) : s \in shorter, c \in NameChars}

NameInputs == StringsUpTo(MaxNameLen)

NmIdle ==
    /\ nmPc = "idle"
    /\ nmName = <<>>
    /\ nmCustom = FALSE
    /\ nmWire = <<>>
    /\ nmInternal = <<>>

NmInit ==
    /\ nmPc = "start"
    /\ nmName \in NameInputs
    /\ nmCustom \in BOOLEAN
    /\ nmWire = <<>>
    /\ nmInternal = <<>>

\* sfCase(name, custom)
NmToWire ==
    /\ nmPc = "start"
    /\ nmWire' = sfCase(nmName, nmCustom)
    /\ nmPc' = "wire"
    /\ UNCHANGED <<nmName, nmCustom, nmInternal>>
    /\ UNCHANGED nonNmVars

\* bpCase(the wire name)
NmToInternal ==
    /\ nmPc = "wire"
    /\ nmInternal' = bpCase(nmWire)
    /\ nmPc' = "internal"
    /\ UNCHANGED <<nmName, nmCustom, nmWire>>
    /\ UNCHANGED nonNmVars

NmNext == NmToWire \/ NmToInternal

\* C6: for any internal name N, bpCase(sfCase(N, true)) is the snake-cased
\* form of N: no remnant of the custom suffix and no character lost.
C6_RoundTrip ==
    (nmPc = "internal" /\ nmCustom) => nmInternal = snakeCase(nmName)

(***************************************************************************)
(* Specifications.                                                         *)
(***************************************************************************)
InitNaming == NmInit /\ DgIdle /\ OpIdle /\ AnIdle /\ FmIdle /\ DcIdle
SpecNaming == InitNaming /\ [][NmNext]_vars

InitDiagnose == DgInit /\ NmIdle /\ OpIdle /\ AnIdle /\ FmIdle /\ DcIdle
SpecDiagnose == InitDiagnose /\ [][DgNext]_vars

Init == OpInit /\ NmIdle /\ DgIdle /\ AnIdle /\ FmIdle /\ DcIdle
Spec == Init /\ [][OpNext]_vars

InitAnnotate == AnInit /\ NmIdle /\ DgIdle /\ OpIdle /\ FmIdle /\ DcIdle
SpecAnnotate == InitAnnotate /\ [][AnNext]_vars

InitFields == FmInit /\ NmIdle /\ DgIdle /\ OpIdle /\ AnIdle /\ DcIdle
SpecFields == InitFields /\ [][FmNext]_vars

InitDiscover == DcInit /\ NmIdle /\ DgIdle /\ OpIdle /\ AnIdle /\ FmIdle
SpecDiscover == InitDiscover /\ [][DcNext]_vars

====
